---- MODULE Spec2Model ----
(***************************************************************************)
(* Model of package db (src/db/db.go): the bulk upsert InsertBulkData, its *)
(* two coercion passes, the COPY cursor and the staging/merge statements   *)
(* it sends through a pgx transaction taken from the pool.                 *)
(*                                                                         *)
(* The database is modelled by what PostgreSQL does with the statements    *)
(* the code sends: a transaction works on a private view of the target     *)
(* table that COMMIT publishes and ROLLBACK discards; CREATE TEMPORARY     *)
(* TABLE without ON COMMIT DROP lives until its session ends; INSERT ...   *)
(* ON CONFLICT DO UPDATE refuses to touch one row twice.  Each round trip  *)
(* to the server is one step: it either took effect and was answered, or   *)
(* failed and took no effect; the deadline passes between round trips.     *)
(*                                                                         *)
(* Specifications:                                                         *)
(*   Spec            one caller, its calls one after the other             *)
(*   SpecConcurrent  the callers' calls in parallel on the one pool        *)
(*   SpecCoerce      one call with records of every kind of value, up to   *)
(*                   the coerced records                                   *)
(*   SpecCursor      one call up to its bulk load, the cursor called step  *)
(*                   by step                                               *)
(***************************************************************************)
EXTENDS Integers, Sequences, FiniteSets, Bags, TLC

(***************************************************************************)
(* Bounds of the model.                                                    *)
(***************************************************************************)
\* longest record sequence handed to one call
MaxRecords == 2
\* number of calls the caller makes, one after the other
MaxCalls == 2
\* connections of the pool
PoolSize == 2
\* calls of Next, Values and Err made on one cursor
MaxCursorCalls == 4

(***************************************************************************)
(* Dynamic values (Go interface{}).  One record shape for every kind:      *)
(*   k   the dynamic type                                                  *)
(*   c   for a string, what its text is: "plain", "num" (strconv.ParseFloat *)
(*       accepts it) or "rfc3339" (time.Parse(time.RFC3339, _) accepts it)  *)
(*   s   the text of a plain or numeric string                             *)
(*   n   the number: low 32 bits (signed) of an int, whole seconds of a    *)
(*       time, the value of a float or of a numeric string, 0/1 of a bool  *)
(*   hi  the bits of a 64-bit int above the low 32: the int is             *)
(*       hi * 2^32 + n                                                     *)
(*   ns  the sub-second part of a time                                     *)
(***************************************************************************)
V(k, c, s, n, hi, ns) == [k |-> k, c |-> c, s |-> s, n |-> n, hi |-> hi, ns |-> ns]

Nil == V("nil", "", "", 0, 0, 0)
GoInt(hi, lo) == V("int", "", "", lo, hi, 0)
GoFloat(n) == V("float64", "", "", n, 0, 0)
GoBool(b) == V("bool", "", "", IF b THEN 1 ELSE 0, 0, 0)
GoTime(sec, ns) == V("time", "", "", sec, 0, ns)
PlainString(txt) == V("string", "plain", txt, 0, 0, 0)
NumString(txt, n) == V("string", "num", txt, n, 0, 0)
RFC3339String(sec, ns) == V("string", "rfc3339", "", sec, 0, ns)

\* driver-native values built by formatToBinaryData
Timestamptz(sec, ns) == V("Timestamptz", "", "", sec, 0, ns)
Float8(n) == V("Float8", "", "", n, 0, 0)
Int32(n) == V("int32", "", "", n, 0, 0)
PgBool(n) == V("Bool", "", "", n, 0, 0)
Text(v) == [v EXCEPT !.k = "Text"]

\* row[col] of a Go map: the zero value nil when the key is missing
Lookup(row, col) == IF col \in DOMAIN row THEN row[col] ELSE Nil

\* the sequences that list every element of S once
Perms(S) == {p \in [1..Cardinality(S) -> S] : \A i, j \in 1..Cardinality(S) : p[i] = p[j] => i = j}

Range(seq) == {seq[i] : i \in 1..Len(seq)}

(***************************************************************************)
(* getColumns: the keys of the first record, in the order the map          *)
(* iteration yields them, which Go leaves unspecified: any permutation.    *)
(***************************************************************************)
getColumns(data) == IF Len(data) = 0 THEN {<<>>} ELSE Perms(DOMAIN data[1])

(***************************************************************************)
(* formatTimestamps, one value: a time.Time becomes its RFC3339 text       *)
(* (whole seconds: the layout has no fraction), a string ParseFloat        *)
(* accepts becomes that float64, anything else is kept.                    *)
(***************************************************************************)
formatTimestampsValue(v) ==
  IF v.k = "time" THEN RFC3339String(v.n, 0)
  ELSE IF v.k = "string" /\ v.c = "num" THEN GoFloat(v.n)
  ELSE v

formatTimestamps(data, columnOrder) ==
  [i \in 1..Len(data) |->
     [col \in Range(columnOrder) |-> formatTimestampsValue(Lookup(data[i], col))]]

(***************************************************************************)
(* formatToBinaryData.  int32(v) keeps the low 32 bits of the int.  A      *)
(* string in column "time" that does not parse is skipped: the new row     *)
(* has no entry for the column.                                            *)
(***************************************************************************)
int32(v) == v.n

timeParseFails(col, v) == v.k = "string" /\ col = "time" /\ v.c # "rfc3339"

formatToBinaryValue(col, v) ==
  CASE v.k = "time" -> Timestamptz(v.n, v.ns)
    [] v.k = "float64" -> Float8(v.n)
    [] v.k = "int" -> Int32(int32(v))
    [] v.k = "bool" -> PgBool(v.n)
    [] v.k = "string" -> IF col = "time" THEN Timestamptz(v.n, v.ns) ELSE Text(v)
    [] OTHER -> v

\* fault: a time that does not parse empties the whole record
formatToBinaryDataOrNothing(data, columnOrder) ==
  [i \in 1..Len(data) |->
     [col \in {x \in Range(columnOrder) :
                \A y \in Range(columnOrder) : ~timeParseFails(y, Lookup(data[i], y))} |->
        formatToBinaryValue(col, Lookup(data[i], col))]]

formatToBinaryData(data, columnOrder) ==
  [i \in 1..Len(data) |->
     [col \in {x \in Range(columnOrder) : ~timeParseFails(x, Lookup(data[i], x))} |->
        formatToBinaryValue(col, Lookup(data[i], col))]]

(***************************************************************************)
(* formataToNativeType, one value: what the fetch path hands back for a    *)
(* stored value.                                                           *)
(***************************************************************************)
formataToNativeTypeValue(v) ==
  CASE v.k = "Timestamptz" -> GoTime(v.n, v.ns)
    [] v.k = "Float8" -> GoFloat(v.n)
    [] v.k = "int32" -> GoInt(0, v.n)
    [] v.k = "Bool" -> GoBool(v.n = 1)
    [] v.k = "Text" -> [v EXCEPT !.k = "string"]
    [] OTHER -> v

(***************************************************************************)
(* contains and buildUpdateValuesWithExcluded: the columns the merge's     *)
(* SET clause assigns, one "col = EXCLUDED.col" each, in column order.     *)
(***************************************************************************)
\* fault: no item is ever found
containsNone(slice, item) == FALSE

contains(slice, item) == \E i \in 1..Len(slice) : slice[i] = item

RECURSIVE buildUpdateValuesWithExcluded(_, _)
buildUpdateValuesWithExcluded(cols, primaryKey) ==
  IF Len(cols) = 0 THEN <<>>
  ELSE (IF ~contains(primaryKey, Head(cols)) THEN <<Head(cols)>> ELSE <<>>)
         \o buildUpdateValuesWithExcluded(Tail(cols), primaryKey)

(***************************************************************************)
(* mapCopyFromSource: the cursor COPY pulls rows from.  pos counts from 0  *)
(* as in the code; record number pos is data[pos + 1] here.                *)
(***************************************************************************)
\* fault: the cursor walks the columns in another order than the one it was given
reversedMapCopyFromSource(data, columnsOrder) ==
  [data |-> data, pos |-> 0,
   columns |-> [i \in 1..Len(columnsOrder) |-> columnsOrder[Len(columnsOrder) + 1 - i]]]

newMapCopyFromSource(data, columnsOrder) == [data |-> data, pos |-> 0, columns |-> columnsOrder]

CursorNext(m) == m.pos < Len(m.data)

\* fault: Values without m.pos++
CursorValuesInPlace(m) ==
  IF ~CursorNext(m)
  THEN [values |-> <<>>, eof |-> TRUE, m |-> m]
  ELSE [values |-> [i \in 1..Len(m.columns) |-> Lookup(m.data[m.pos + 1], m.columns[i])],
        eof |-> FALSE,
        m |-> m]

\* Values: the row's values in column order and the advanced cursor, or io.EOF
CursorValues(m) ==
  IF ~CursorNext(m)
  THEN [values |-> <<>>, eof |-> TRUE, m |-> m]
  ELSE [values |-> [i \in 1..Len(m.columns) |-> Lookup(m.data[m.pos + 1], m.columns[i])],
        eof |-> FALSE,
        m |-> [m EXCEPT !.pos = m.pos + 1]]

CursorErr(m) == "nil"

\* pgx CopyFrom's loop: for src.Next() { values, err := src.Values(); ... }
RECURSIVE CopyRows(_)
CopyRows(m) ==
  IF CursorNext(m) THEN <<CursorValues(m).values>> \o CopyRows(CursorValues(m).m) ELSE <<>>

(***************************************************************************)
(* The target table: columns id and val, primary key (id).  A table is a   *)
(* bag of rows, a row a function from the table's columns to values.       *)
(***************************************************************************)
TableCols == {"id", "val"}
UniqueKey == {"id"}

KeyOf(row, keyCols) == [col \in keyCols |-> Lookup(row, col)]

\* COPY tmp (cols) FROM STDIN: one staged row per row the cursor yields,
\* NULL in the columns the column list leaves out
StagedRow(values, cols) ==
  [col \in TableCols |->
     IF \E i \in 1..Len(cols) : cols[i] = col
     THEN values[CHOOSE i \in 1..Len(cols) : cols[i] = col]
     ELSE Nil]

CopyFrom(cols, src) == [i \in 1..Len(CopyRows(src)) |-> StagedRow(CopyRows(src)[i], cols)]

\* SELECT cols FROM tmp
SelectAll(staged, cols) ==
  [i \in 1..Len(staged) |-> [col \in Range(cols) |-> staged[i][col]]]

\* DISTINCT: every row once
RECURSIVE Distinct(_)
Distinct(rows) ==
  IF Len(rows) = 0 THEN <<>>
  ELSE LET d == Distinct(SubSeq(rows, 1, Len(rows) - 1))
       IN  IF rows[Len(rows)] \in Range(d) THEN d ELSE Append(d, rows[Len(rows)])

\* fault: the SELECT without DISTINCT
SelectNotDistinct(staged, cols) == SelectAll(staged, cols)

\* SELECT DISTINCT cols FROM tmp
SelectDistinct(staged, cols) == Distinct(SelectAll(staged, cols))

(***************************************************************************)
(* INSERT INTO t (cols) SELECT DISTINCT cols FROM tmp                      *)
(*   ON CONFLICT (primaryKey) DO UPDATE SET <buildUpdateValuesWithExcluded>*)
(* MergeError is the SQLSTATE PostgreSQL answers with, "" when it accepts: *)
(*   42601  syntax error: "ON CONFLICT ()" or an empty SET list            *)
(*   42P10  no unique constraint matches the ON CONFLICT columns           *)
(*   23502  NULL in the primary key                                        *)
(*   21000  two selected rows have the same key: ON CONFLICT DO UPDATE     *)
(*          cannot affect a row a second time                              *)
(* rows is the sequence of rows the SELECT yields.                         *)
(***************************************************************************)
MergeError(rows, cols, primaryKey) ==
  IF Len(primaryKey) = 0 \/ Len(buildUpdateValuesWithExcluded(cols, primaryKey)) = 0
  THEN "42601"
  ELSE IF Range(primaryKey) # UniqueKey THEN "42P10"
  ELSE IF \E i \in 1..Len(rows) : \E col \in UniqueKey : Lookup(rows[i], col) = Nil
  THEN "23502"
  ELSE IF \E i, j \in 1..Len(rows) :
            i # j /\ KeyOf(rows[i], UniqueKey) = KeyOf(rows[j], UniqueKey)
  THEN "21000"
  ELSE ""

\* fault: a plain INSERT, no ON CONFLICT
InsertRow(tbl, r, cols, primaryKey) == tbl (+) SetToBag({[col \in TableCols |-> Lookup(r, col)]})

\* one selected row: update the row it conflicts with, or insert it
UpsertRow(tbl, r, cols, primaryKey) ==
  LET set == Range(buildUpdateValuesWithExcluded(cols, primaryKey))
      hit == {o \in BagToSet(tbl) : KeyOf(o, Range(primaryKey)) = KeyOf(r, Range(primaryKey))}
  IN  IF hit # {}
      THEN LET o == CHOOSE h \in hit : TRUE
           IN  (tbl (-) SetToBag({o}))
                 (+) SetToBag({[col \in TableCols |-> IF col \in set THEN r[col] ELSE o[col]]})
      ELSE tbl (+) SetToBag({[col \in TableCols |-> Lookup(r, col)]})

RECURSIVE MergeApply(_, _, _, _)
MergeApply(tbl, rows, cols, primaryKey) ==
  IF Len(rows) = 0 THEN tbl
  ELSE MergeApply(UpsertRow(tbl, Head(rows), cols, primaryKey), Tail(rows), cols, primaryKey)

(***************************************************************************)
(* State.                                                                  *)
(*   target      the committed rows of the target table                    *)
(*   sessions    per pooled connection, the temporary tables that exist in *)
(*               its session outside any transaction                       *)
(*   issued      how many UUIDs uuid.New() has handed out                  *)
(*   calls       how many calls have been made                             *)
(* and per caller c, for its current (or last) call of InsertBulkData:     *)
(*   pc          where the call is: "idle" (never called), "begin",        *)
(*               "create", "copy", "merge", "commit", "rollback" (the      *)
(*               deferred tx.Rollback is due), "done" (returned)           *)
(*   input, primaryKey   the arguments data and primaryKey                 *)
(*   columns, data       the locals columns and data (after coercion)      *)
(*   expiredAt   "" while ctxWithTimeout is live, else the pc at which its *)
(*               deadline passed                                           *)
(*   err         the error returned: "nil", "timeout", or the failing step *)
(*   conn        the pooled connection the call's tx holds, 0 for none     *)
(*   txStatus    "none", "open", "committed" or "aborted"                  *)
(*   tempTable   the staging table the call created, 0 for none            *)
(*   created     how many staging tables the call has created              *)
(*   staging     the rows of the staging table                             *)
(*   pending     the target table as the open transaction sees it          *)
(*   before      the target table when the call was made                   *)
(*   rep         the call repeats the caller's previous call, which        *)
(*               succeeded                                                 *)
(* and, where the bulk load is followed call by call (SpecCursor):         *)
(*   dataToInsert  the cursor handed to CopyFrom, NoCursor before it is    *)
(*               made                                                      *)
(*   cursorLog   the calls made on the cursor so far, each with what it    *)
(*               returned                                                  *)
(***************************************************************************)
VARIABLES target, sessions, issued, calls,
          pc, input, primaryKey, columns, data, expiredAt, err, conn,
          txStatus, tempTable, created, staging, pending, before, rep,
          dataToInsert, cursorLog

vars == <<target, sessions, issued, calls,
          pc, input, primaryKey, columns, data, expiredAt, err, conn,
          txStatus, tempTable, created, staging, pending, before, rep,
          dataToInsert, cursorLog>>

cursorVars == <<dataToInsert, cursorLog>>

\* no cursor yet: the nil *mapCopyFromSource
NoCursor == [data |-> <<>>, pos |-> 0, columns |-> <<>>]

NumCallers == 2
Callers == 1..NumCallers
Conns == 1..PoolSize

(***************************************************************************)
(* The inputs the model draws from.  2^32 + 1 is an int whose low 32 bits  *)
(* are those of 1.  The record with no val is a record that lacks a column.*)
(***************************************************************************)
InputRecords ==
  {[id |-> GoInt(0, 1), val |-> PlainString("a")],
   [id |-> GoInt(0, 1), val |-> PlainString("b")],
   [id |-> GoInt(0, 2), val |-> PlainString("a")],
   [id |-> GoInt(1, 1), val |-> PlainString("b")],
   [id |-> GoInt(0, 1)]}
Inputs == UNION {[1..n -> InputRecords] : n \in 0..MaxRecords}
PrimaryKeys == {<<"id">>, <<>>}
InitialTargets ==
  {SetToBag(S) : S \in SUBSET {[id |-> Int32(1), val |-> Text(PlainString("a"))],
                               [id |-> Int32(2), val |-> Text(PlainString("b"))]}}

Init ==
  /\ target \in InitialTargets
  /\ sessions = [k \in Conns |-> {}]
  /\ issued = 0
  /\ calls = 0
  /\ pc = [c \in Callers |-> "idle"]
  /\ input = [c \in Callers |-> <<>>]
  /\ primaryKey = [c \in Callers |-> <<>>]
  /\ columns = [c \in Callers |-> <<>>]
  /\ data = [c \in Callers |-> <<>>]
  /\ expiredAt = [c \in Callers |-> ""]
  /\ err = [c \in Callers |-> "nil"]
  /\ conn = [c \in Callers |-> 0]
  /\ txStatus = [c \in Callers |-> "none"]
  /\ tempTable = [c \in Callers |-> 0]
  /\ created = [c \in Callers |-> 0]
  /\ staging = [c \in Callers |-> <<>>]
  /\ pending = [c \in Callers |-> EmptyBag]
  /\ before = [c \in Callers |-> EmptyBag]
  /\ rep = [c \in Callers |-> FALSE]
  /\ dataToInsert = [c \in Callers |-> NoCursor]
  /\ cursorLog = [c \in Callers |-> <<>>]

\* fault: the name of the staging table made before is used again
ReusedTempTableName == IF issued = 0 THEN issued + 1 ELSE issued

\* uuid.New(): a UUID no earlier call was given
generateUniqueTempTableName == issued + 1

\* fault: the steps run on a context without deadline
NeverExpired(c) == FALSE

\* the deadline of ctxWithTimeout has passed
Expired(c) == expiredAt[c] # ""

\* a connection of the pool no transaction holds
Idle(k) == \A c \in Callers : conn[c] # k

(***************************************************************************)
(* InsertBulkData up to Pool.Begin: the empty input returns nil at once;   *)
(* otherwise the context gets its deadline, the columns are read off the   *)
(* first record and both coercion passes run.                              *)
(***************************************************************************)
\* fault: no early return for the empty input
NoGuard(d) == FALSE

EmptyInput(d) == Len(d) = 0

InsertBulkData(c, d, pk, cols) ==
  /\ pc[c] \in {"idle", "done"}
  /\ calls < MaxCalls
  /\ cols \in getColumns(d)
  /\ calls' = calls + 1
  /\ input' = [input EXCEPT ![c] = d]
  /\ primaryKey' = [primaryKey EXCEPT ![c] = pk]
  /\ before' = [before EXCEPT ![c] = target]
  /\ rep' = [rep EXCEPT ![c] = /\ pc[c] = "done" /\ err[c] = "nil" /\ Len(d) > 0
                                /\ input[c] = d /\ primaryKey[c] = pk]
  /\ expiredAt' = [expiredAt EXCEPT ![c] = ""]
  /\ err' = [err EXCEPT ![c] = "nil"]
  /\ txStatus' = [txStatus EXCEPT ![c] = "none"]
  /\ tempTable' = [tempTable EXCEPT ![c] = 0]
  /\ created' = [created EXCEPT ![c] = 0]
  /\ staging' = [staging EXCEPT ![c] = <<>>]
  /\ pending' = [pending EXCEPT ![c] = EmptyBag]
  /\ IF EmptyInput(d)
     THEN /\ pc' = [pc EXCEPT ![c] = "done"]
          /\ columns' = [columns EXCEPT ![c] = <<>>]
          /\ data' = [data EXCEPT ![c] = d]
     ELSE /\ pc' = [pc EXCEPT ![c] = "begin"]
          /\ columns' = [columns EXCEPT ![c] = cols]
          /\ data' = [data EXCEPT ![c] = formatToBinaryData(formatTimestamps(d, cols), cols)]
  /\ UNCHANGED <<target, sessions, issued, conn>>
  /\ UNCHANGED cursorVars

(***************************************************************************)
(* The deadline of ctxWithTimeout passes while the call is under way.      *)
(***************************************************************************)
Expire(c) ==
  /\ pc[c] \in {"begin", "create", "copy", "merge", "commit", "rollback"}
  /\ ~Expired(c)
  /\ expiredAt' = [expiredAt EXCEPT ![c] = pc[c]]
  /\ UNCHANGED <<target, sessions, issued, calls, pc, input, primaryKey, columns,
                 data, err, conn, txStatus, tempTable, created, staging, pending, before, rep>>
  /\ UNCHANGED cursorVars

\* fault: the failed step is tried again
FailAndRetry(c, e) ==
  /\ err' = [err EXCEPT ![c] = e]
  /\ UNCHANGED pc

\* a step of the transaction failed: return its error, the deferred Rollback is due
Fail(c, e) ==
  /\ err' = [err EXCEPT ![c] = e]
  /\ pc' = [pc EXCEPT ![c] = "rollback"]

(***************************************************************************)
(* tx, err := Pool.Begin(ctxWithTimeout): acquire a connection and BEGIN.  *)
(* On error the call returns before the Rollback is deferred.              *)
(***************************************************************************)
Begin(c) ==
  /\ pc[c] = "begin"
  /\ \/ /\ Expired(c)
        /\ err' = [err EXCEPT ![c] = "timeout"]
        /\ pc' = [pc EXCEPT ![c] = "done"]
        /\ UNCHANGED <<conn, txStatus>>
     \/ /\ ~Expired(c)
        /\ err' = [err EXCEPT ![c] = "begin"]
        /\ pc' = [pc EXCEPT ![c] = "done"]
        /\ UNCHANGED <<conn, txStatus>>
     \/ /\ ~Expired(c)
        /\ \E k \in Conns : Idle(k) /\ conn' = [conn EXCEPT ![c] = k]
        /\ txStatus' = [txStatus EXCEPT ![c] = "open"]
        /\ pc' = [pc EXCEPT ![c] = "create"]
        /\ UNCHANGED err
  /\ UNCHANGED <<target, sessions, issued, calls, input, primaryKey, columns, data,
                 expiredAt, tempTable, created, staging, pending, before, rep>>
  /\ UNCHANGED cursorVars

(***************************************************************************)
(* CREATE TEMPORARY TABLE <tempTable> AS TABLE <table> WITH NO DATA        *)
(* It fails when the target table does not exist, or (SQLSTATE 42P07) when *)
(* the session already has a temporary table of that name.                 *)
(***************************************************************************)
CreateStaging(c) ==
  /\ pc[c] = "create"
  /\ issued' = issued + 1
  /\ \/ /\ Expired(c)
        /\ Fail(c, "timeout")
        /\ UNCHANGED <<tempTable, created>>
     \/ /\ ~Expired(c)
        /\ Fail(c, "schema")
        /\ UNCHANGED <<tempTable, created>>
     \/ /\ ~Expired(c)
        /\ generateUniqueTempTableName \notin sessions[conn[c]]
        /\ tempTable' = [tempTable EXCEPT ![c] = generateUniqueTempTableName]
        /\ created' = [created EXCEPT ![c] = created[c] + 1]
        /\ pc' = [pc EXCEPT ![c] = "copy"]
        /\ UNCHANGED err
  /\ UNCHANGED <<target, sessions, calls, input, primaryKey, columns, data,
                 expiredAt, conn, txStatus, staging, pending, before, rep>>
  /\ UNCHANGED cursorVars

(***************************************************************************)
(* tx.CopyFrom(ctx, tempTable, columns, newMapCopyFromSource(data, columns))*)
(***************************************************************************)
Copy(c) ==
  /\ pc[c] = "copy"
  /\ \/ /\ Expired(c)
        /\ Fail(c, "timeout")
        /\ UNCHANGED staging
     \/ /\ ~Expired(c)
        /\ Fail(c, "load")
        /\ UNCHANGED staging
     \/ /\ ~Expired(c)
        /\ staging' = [staging EXCEPT ![c] = CopyFrom(columns[c], newMapCopyFromSource(data[c], columns[c]))]
        /\ pc' = [pc EXCEPT ![c] = "merge"]
        /\ UNCHANGED err
  /\ UNCHANGED <<target, sessions, issued, calls, input, primaryKey, columns, data,
                 expiredAt, conn, txStatus, tempTable, created, pending, before, rep>>
  /\ UNCHANGED cursorVars

(***************************************************************************)
(* tx.Exec(ctx, insertStmt): the merge of the staging table into the       *)
(* target, inside the transaction.  It fails when PostgreSQL rejects the   *)
(* statement, or for a reason outside the model (another constraint of the *)
(* target table, a deadlock).  The rows it writes are locked until the     *)
(* transaction ends: a merge that meets such a row waits.                  *)
(***************************************************************************)
\* fault: the statement sent on the pool, outside the transaction
MergeOutsideTx(c, rows) ==
  /\ pending' = [pending EXCEPT ![c] = MergeApply(target, rows, columns[c], primaryKey[c])]
  /\ target' = MergeApply(target, rows, columns[c], primaryKey[c])

\* the accepted statement changes the target as the transaction sees it
MergeInTx(c, rows) ==
  /\ pending' = [pending EXCEPT ![c] = MergeApply(target, rows, columns[c], primaryKey[c])]
  /\ UNCHANGED target

\* the rows the call's merge statement selects from its staging table
MergedRows(c) == SelectDistinct(staging[c], columns[c])

\* a row lock: another open transaction has merged, and not yet committed, a
\* row with the key of one of rows; the statement waits for that transaction
RowLocked(c, rows) ==
  \E c2 \in Callers \ {c} :
    /\ pc[c2] = "commit"
    /\ \E i \in 1..Len(rows), j \in 1..Len(MergedRows(c2)) :
         KeyOf(rows[i], UniqueKey) = KeyOf(MergedRows(c2)[j], UniqueKey)

Merge(c) ==
  LET rows == MergedRows(c)
      sqlstate == MergeError(rows, columns[c], primaryKey[c])
  IN
  /\ pc[c] = "merge"
  /\ \/ /\ Expired(c)
        /\ Fail(c, "timeout")
        /\ UNCHANGED <<pending, target>>
     \/ /\ ~Expired(c)
        /\ sqlstate # ""
        /\ Fail(c, sqlstate)
        /\ UNCHANGED <<pending, target>>
     \/ /\ ~Expired(c)
        /\ sqlstate = ""
        /\ Fail(c, "merge")
        /\ UNCHANGED <<pending, target>>
     \/ /\ ~Expired(c)
        /\ sqlstate = ""
        /\ ~RowLocked(c, rows)
        /\ MergeInTx(c, rows)
        /\ pc' = [pc EXCEPT ![c] = "commit"]
        /\ UNCHANGED err
  /\ UNCHANGED <<sessions, issued, calls, input, primaryKey, columns, data,
                 expiredAt, conn, txStatus, tempTable, created, staging, before, rep>>
  /\ UNCHANGED cursorVars

(***************************************************************************)
(* tx.Commit(ctx).  pgx marks the transaction closed whether COMMIT        *)
(* succeeds or not and pgxpool releases the connection; after a failed     *)
(* COMMIT the transaction is over on the server (closing = TRUE: pgx also  *)
(* closed the connection, which ends its session).  A COMMIT that succeeds *)
(* publishes the rows the transaction merged and, the staging table        *)
(* having no ON COMMIT DROP, leaves that table in the connection's session.*)
(***************************************************************************)
CloseSession(k) == [sessions EXCEPT ![k] = {}]

\* fault: the connection stays with the call
KeepConn(c) == conn

\* pgxpool's Tx: after Commit or Rollback the connection goes back to the pool
Release(c) == [conn EXCEPT ![c] = 0]

KeepStaging(k, name) == [sessions EXCEPT ![k] = sessions[k] \cup {name}]

Commit(c) ==
  /\ pc[c] = "commit"
  /\ \/ /\ Expired(c)
        /\ Fail(c, "timeout")
        /\ txStatus' = [txStatus EXCEPT ![c] = "aborted"]
        /\ sessions' = CloseSession(conn[c])
        /\ UNCHANGED target
     \/ /\ ~Expired(c)
        /\ Fail(c, "commit")
        /\ txStatus' = [txStatus EXCEPT ![c] = "aborted"]
        /\ \E closing \in BOOLEAN :
             sessions' = IF closing THEN CloseSession(conn[c]) ELSE sessions
        /\ UNCHANGED target
     \/ /\ ~Expired(c)
        /\ target' = MergeApply(target, MergedRows(c), columns[c], primaryKey[c])
        /\ txStatus' = [txStatus EXCEPT ![c] = "committed"]
        /\ sessions' = KeepStaging(conn[c], tempTable[c])
        /\ pc' = [pc EXCEPT ![c] = "rollback"]
        /\ UNCHANGED err
  /\ conn' = Release(c)
  /\ UNCHANGED <<issued, calls, input, primaryKey, columns, data, expiredAt,
                 tempTable, created, staging, pending, before, rep>>
  /\ UNCHANGED cursorVars

(***************************************************************************)
(* defer tx.Rollback(ctxWithTimeout), run as the call returns.  On a       *)
(* closed transaction it is ErrTxClosed and does nothing.  Otherwise       *)
(* ROLLBACK is sent; when the context is done, or the ROLLBACK fails, pgx  *)
(* kills the connection instead, and the server drops the transaction with *)
(* the session.  Either way the connection leaves the call.                *)
(***************************************************************************)
\* fault: no deferred Rollback
RollbackSkipped(c) == UNCHANGED <<txStatus, conn, sessions>>

RollbackOpen(c) ==
  /\ txStatus' = [txStatus EXCEPT ![c] = "aborted"]
  /\ conn' = Release(c)
  /\ \E killed \in BOOLEAN :
       /\ Expired(c) => killed
       /\ sessions' = IF killed THEN CloseSession(conn[c]) ELSE sessions

DeferredRollback(c) ==
  /\ pc[c] = "rollback"
  /\ IF txStatus[c] = "open"
     THEN RollbackOpen(c)
     ELSE UNCHANGED <<txStatus, conn, sessions>>
  /\ pc' = [pc EXCEPT ![c] = "done"]
  /\ UNCHANGED <<target, issued, calls, input, primaryKey, columns, data,
                 expiredAt, err, tempTable, created, staging, pending, before, rep>>
  /\ UNCHANGED cursorVars

(***************************************************************************)
(* Spec: one caller makes its calls one after the other.                   *)
(***************************************************************************)
Caller == 1

Next ==
  \/ \E d \in Inputs : \E cols \in getColumns(d), pk \in PrimaryKeys :
       InsertBulkData(Caller, d, pk, cols)
  \/ Expire(Caller)
  \/ Begin(Caller)
  \/ CreateStaging(Caller)
  \/ Copy(Caller)
  \/ Merge(Caller)
  \/ Commit(Caller)
  \/ DeferredRollback(Caller)

Spec == Init /\ [][Next]_vars

(***************************************************************************)
(* SpecCoerce: one call, made with records of every kind of value the      *)
(* coercion passes tell apart, some in the column named "time"; the call   *)
(* is followed up to Pool.Begin, where the coerced records are at hand.    *)
(***************************************************************************)
CoerceRecords ==
  {[id |-> GoInt(0, 1), time |-> GoTime(5, 7), ts |-> GoTime(6, 0)],
   [id |-> GoInt(1, 1), time |-> PlainString("x"), ts |-> GoBool(TRUE)],
   [id |-> GoInt(0, 2), time |-> RFC3339String(5, 0), ts |-> GoFloat(2)],
   [id |-> GoInt(0, 3), time |-> NumString("3", 3)],
   [time |-> PlainString("x")]}
CoerceInputs == UNION {[1..n -> CoerceRecords] : n \in 1..MaxRecords}
CoercePrimaryKeys == {<<"id">>, <<"time", "id">>, <<"id", "time", "ts">>}

NextCoerce ==
  \E d \in CoerceInputs : \E cols \in getColumns(d), pk \in CoercePrimaryKeys :
    calls = 0 /\ InsertBulkData(Caller, d, pk, cols)

SpecCoerce == Init /\ [][NextCoerce]_vars

(***************************************************************************)
(* SpecCursor: one call, followed to its bulk load, where the cursor is    *)
(* made (dataToInsert := newMapCopyFromSource(data, columns)) and then     *)
(* called in any order: Next, Values and Err, each call and its result     *)
(* written to cursorLog.                                                   *)
(***************************************************************************)
Called(op, ok, values) == [op |-> op, ok |-> ok, values |-> values]

NewCursor(c) ==
  /\ pc[c] = "copy"
  /\ dataToInsert[c] = NoCursor
  /\ dataToInsert' = [dataToInsert EXCEPT ![c] = newMapCopyFromSource(data[c], columns[c])]
  /\ UNCHANGED <<target, sessions, issued, calls, pc, input, primaryKey, columns, data,
                 expiredAt, err, conn, txStatus, tempTable, created, staging, pending,
                 before, rep, cursorLog>>

CursorCall(c) ==
  /\ pc[c] = "copy"
  /\ dataToInsert[c] # NoCursor
  /\ Len(cursorLog[c]) < MaxCursorCalls

CallNext(c) ==
  /\ CursorCall(c)
  /\ cursorLog' = [cursorLog EXCEPT ![c] = Append(@, Called("Next", CursorNext(dataToInsert[c]), <<>>))]
  /\ UNCHANGED <<target, sessions, issued, calls, pc, input, primaryKey, columns, data,
                 expiredAt, err, conn, txStatus, tempTable, created, staging, pending,
                 before, rep, dataToInsert>>

CallValues(c) ==
  /\ CursorCall(c)
  /\ dataToInsert' = [dataToInsert EXCEPT ![c] = CursorValues(@).m]
  /\ cursorLog' = [cursorLog EXCEPT ![c] =
                     Append(@, Called("Values", ~CursorValues(dataToInsert[c]).eof,
                                      CursorValues(dataToInsert[c]).values))]
  /\ UNCHANGED <<target, sessions, issued, calls, pc, input, primaryKey, columns, data,
                 expiredAt, err, conn, txStatus, tempTable, created, staging, pending,
                 before, rep>>

CallErr(c) ==
  /\ CursorCall(c)
  /\ cursorLog' = [cursorLog EXCEPT ![c] = Append(@, Called("Err", CursorErr(dataToInsert[c]) = "nil", <<>>))]
  /\ UNCHANGED <<target, sessions, issued, calls, pc, input, primaryKey, columns, data,
                 expiredAt, err, conn, txStatus, tempTable, created, staging, pending,
                 before, rep, dataToInsert>>

NextCursor ==
  \/ \E d \in Inputs : \E cols \in getColumns(d) :
       calls = 0 /\ InsertBulkData(Caller, d, <<"id">>, cols)
  \/ Begin(Caller)
  \/ CreateStaging(Caller)
  \/ NewCursor(Caller)
  \/ CallNext(Caller)
  \/ CallValues(Caller)
  \/ CallErr(Caller)

SpecCursor == Init /\ [][NextCursor]_vars

(***************************************************************************)
(* SpecConcurrent: the callers make their calls in parallel, on the one    *)
(* pool; any caller may take the next step.                                *)
(***************************************************************************)
ConcurrentInputs ==
  {<<[id |-> GoInt(0, 1), val |-> PlainString("a")]>>,
   <<[id |-> GoInt(0, 2), val |-> PlainString("a")]>>,
   <<[id |-> GoInt(0, 1), val |-> PlainString("a")], [id |-> GoInt(0, 1), val |-> PlainString("b")]>>}

NextConcurrent ==
  \E c \in Callers :
    \/ \E d \in ConcurrentInputs : \E cols \in getColumns(d) :
         InsertBulkData(c, d, <<"id">>, cols)
    \/ Expire(c)
    \/ Begin(c)
    \/ CreateStaging(c)
    \/ Copy(c)
    \/ Merge(c)
    \/ Commit(c)
    \/ DeferredRollback(c)

SpecConcurrent == Init /\ [][NextConcurrent]_vars

(***************************************************************************)
(* Properties.                                                             *)
(***************************************************************************)
Returned(c) == pc[c] = "done"

Succeeded(c) == pc[c] = "done" /\ err[c] = "nil"

StepErrors == {"schema", "load", "merge", "commit", "42601", "42P10", "23502", "21000"}

\* C1: when staging creation, bulk load, merge or commit fails the call
\* carries that step's error and the target table holds exactly the rows it
\* held when the call was made, from the failure on.
C1_FailureLeavesTargetUnchanged ==
  \A c \in Callers :
    /\ err[c] \in StepErrors => pc[c] \in {"rollback", "done"} /\ target = before[c]
    /\ (Returned(c) /\ txStatus[c] = "aborted") => err[c] # "nil" /\ target = before[c]

\* a commit failed after the merge had changed the transaction's view
C1_Witness ==
  \E c \in Callers : Returned(c) /\ err[c] = "commit" /\ pending[c] # before[c]

\* C2: a returned call has left no transaction open; the transaction is
\* committed exactly when the call returned nil, aborted otherwise, and after
\* the deferred Rollback the target still is what the commit published.
C2_TransactionClosedOnReturn ==
  \A c \in Callers :
    Returned(c) =>
      /\ txStatus[c] # "open"
      /\ conn[c] = 0
      /\ txStatus[c] # "none" => (txStatus[c] = "committed" <=> err[c] = "nil")
      /\ txStatus[c] = "committed" => target = pending[c]

\* the deferred Rollback has run after a commit that changed the target
C2_Witness ==
  \E c \in Callers : Returned(c) /\ txStatus[c] = "committed" /\ target # before[c]

\* C3: a call whose deadline passed before one of its steps (begin, staging
\* creation, bulk load, merge, commit) returns the timeout error with the
\* target as it was when the call was made and no transaction committed.
C3_TimeoutRollsBack ==
  \A c \in Callers :
    (Returned(c) /\ expiredAt[c] \in {"begin", "create", "copy", "merge", "commit"}) =>
      /\ err[c] = "timeout"
      /\ target = before[c]
      /\ txStatus[c] \in {"none", "aborted"}

\* the deadline passed between the merge and the commit
C3_Witness ==
  \E c \in Callers : Returned(c) /\ expiredAt[c] = "commit" /\ pending[c] # before[c]

(***************************************************************************)
(* What a fetch of the target yields, and what the claims compare.         *)
(***************************************************************************)
Fetch(tbl) == {[col \in TableCols |-> formataToNativeTypeValue(row[col])] : row \in BagToSet(tbl)}

ConsistentColumns(d) == \A i \in 1..Len(d) : DOMAIN d[i] = DOMAIN d[1]

\* the rows of tbl whose key columns hold key
RowsWithKey(tbl, key) ==
  BagCardinality([o \in {x \in BagToSet(tbl) : KeyOf(x, DOMAIN key) = key} |-> tbl[o]])

\* the call was made with no records
NoRecords(c) == Len(input[c]) = 0

\* C4: after a successful call on an empty target with records of one column
\* set, the key values a fetch of the target yields are exactly the distinct
\* primary-key projections of the input.
C4_KeysAreProjections ==
  \A c \in Callers :
    (Succeeded(c) /\ ~NoRecords(c) /\ ConsistentColumns(input[c])
       /\ before[c] = EmptyBag) =>
      {KeyOf(row, Range(primaryKey[c])) : row \in Fetch(target)}
        = {KeyOf(input[c][i], Range(primaryKey[c])) : i \in 1..Len(input[c])}

\* C5: after a successful call every input record is in the target (a fetched
\* row agrees with it on each of its columns), exactly one row has its key,
\* and the rows whose key is the key of no input record are as they were.
C5_UpsertPostcondition ==
  \A c \in Callers :
    (Succeeded(c) /\ ~NoRecords(c)) =>
      /\ \A i \in 1..Len(input[c]) :
           \E row \in Fetch(target) : \A col \in DOMAIN input[c][i] : row[col] = input[c][i][col]
      /\ \A o \in BagToSet(before[c]) :
           (\A i \in 1..Len(input[c]) :
              KeyOf(input[c][i], UniqueKey) # KeyOf([col \in TableCols |-> formataToNativeTypeValue(o[col])], UniqueKey))
             => (o \in BagToSet(target) /\ target[o] = before[c][o])

\* C6: a successful call that repeats the caller's previous successful call
\* (same records, same primary key, the target as that call left it) leaves
\* the target as it found it: the same rows, each once.
C6_Idempotent ==
  \A c \in Callers : (Succeeded(c) /\ rep[c]) => target = before[c]

\* a two-record call repeated on the target the first one filled
C6_Witness ==
  \E c \in Callers : Succeeded(c) /\ rep[c] /\ Len(input[c]) = 2 /\ target # EmptyBag

\* two records of the input are the same record
IdenticalPair(d, i, j) == i # j /\ d[i] = d[j]

\* two staged rows have the same key and are not the same row
KeyClash(c) ==
  \E i, j \in 1..Len(data[c]) :
    /\ KeyOf(data[c][i], UniqueKey) = KeyOf(data[c][j], UniqueKey)
    /\ \E col \in Range(columns[c]) : Lookup(data[c][i], col) # Lookup(data[c][j], col)

LastOfKey(d, i, j) ==
  /\ i < j
  /\ KeyOf(d[i], UniqueKey) = KeyOf(d[j], UniqueKey)
  /\ d[i] # d[j]
  /\ \A l \in 1..Len(d) : l > j => KeyOf(d[l], UniqueKey) # KeyOf(d[j], UniqueKey)

\* C8 as claimed: several records with one primary key and different other
\* values are merged, the row of that key ending with the values of the last.
C8_LastRecordWins ==
  \A c \in Callers :
    \A i, j \in 1..Len(input[c]) :
      (Returned(c) /\ ConsistentColumns(input[c]) /\ LastOfKey(input[c], i, j)) =>
        /\ err[c] # "21000"
        /\ err[c] = "nil" =>
             \E row \in Fetch(target) : \A col \in DOMAIN input[c][j] : row[col] = input[c][j][col]

\* What the code does in the case of C8: when two staged rows have the same
\* primary key and differ in another column the merge is never accepted: the
\* call does not reach the commit, it returns an error (SQLSTATE 21000 when
\* the merge is the step that fails) and the target is as it was.
KeyClashRejected ==
  \A c \in Callers :
    (pc[c] \notin {"idle", "begin"} /\ KeyClash(c)) =>
      /\ pc[c] # "commit"
      /\ txStatus[c] # "committed"
      /\ target = before[c]
      /\ Returned(c) => err[c] # "nil"
      /\ (Returned(c) /\ Len(staging[c]) > 0 /\ ~Expired(c)) => err[c] \in {"21000", "42601", "42P10"}

\* the merge of two records with one key and two values was refused
KeyClashReached ==
  \E c \in Callers : Returned(c) /\ KeyClash(c) /\ err[c] = "21000"

\* C9: a call with no records returns nil at once: no transaction, no
\* connection, no staging table, the target as it was.
C9_EmptyInputIsNoOp ==
  \A c \in Callers :
    (pc[c] # "idle" /\ NoRecords(c)) =>
      /\ Succeeded(c)
      /\ txStatus[c] = "none"
      /\ conn[c] = 0
      /\ created[c] = 0
      /\ tempTable[c] = 0
      /\ target = before[c]

\* an empty call made after a call that left rows in the target
C9_Witness ==
  \E c \in Callers : Returned(c) /\ NoRecords(c) /\ calls = 2 /\ target # EmptyBag

\* C10: a call creates at most one staging table, and once it has returned
\* that table exists in the session of no pooled connection.
C10_StagingTableGone ==
  \A c \in Callers :
    /\ created[c] <= 1
    /\ (Returned(c) /\ txStatus[c] # "none") => \A k \in Conns : tempTable[c] \notin sessions[k]

(***************************************************************************)
(* Concurrent calls.                                                       *)
(***************************************************************************)
\* the call has a staging table that its transaction has not yet committed
Loading(c) == pc[c] \in {"copy", "merge", "commit"}

\* the rows the call has to load: what COPY makes of its coerced records
OwnRows(c) == CopyFrom(columns[c], newMapCopyFromSource(data[c], columns[c]))

\* C11, at every state: calls in flight hold different connections, each with
\* its own open transaction; the staging tables of different calls have
\* different names, and none has the name of a table an earlier call left
\* behind; once loaded, a call's staging table holds the rows of that call.
C11_Isolated ==
  \A c \in Callers :
    /\ conn[c] # 0 => conn[c] \in Conns /\ txStatus[c] = "open"
    /\ \A c2 \in Callers \ {c} : conn[c] # 0 => conn[c] # conn[c2]
    /\ \A c2 \in Callers \ {c} : tempTable[c] # 0 => tempTable[c] # tempTable[c2]
    /\ Loading(c) => \A k \in Conns : tempTable[c] \notin sessions[k]
    /\ pc[c] \in {"merge", "commit"} => staging[c] = OwnRows(c)

\* C11, at every step: the commit of a call merges into the target the rows
\* that call loaded, each once, and no other row.
C11_MergesOwnRows ==
  \A c \in Callers :
    (txStatus[c] = "open" /\ txStatus'[c] = "committed") =>
      target' = MergeApply(target, Distinct(SelectAll(OwnRows(c), columns[c])),
                           columns[c], primaryKey[c])

\* C11: concurrent calls run each on its own connection and transaction,
\* never share a staging-table name, and merge exactly the rows they loaded.
C11_ConcurrentCallsIsolated == []C11_Isolated /\ [][C11_MergesOwnRows]_vars

\* a call created its staging table after another did and committed while
\* that other one, having merged, had not yet committed
C11_Witness ==
  \E c \in Callers, c2 \in Callers :
    /\ c # c2
    /\ pc[c] = "commit" /\ tempTable[c] > 0
    /\ Succeeded(c2) /\ txStatus[c2] = "committed" /\ tempTable[c2] > tempTable[c]
    /\ target # before[c]

\* C12: a call that has returned holds no connection, whichever way it
\* returned; a connection is held only from Pool.Begin to the end of the
\* transaction; when every call has returned the whole pool is idle.
C12_ConnectionReleased ==
  /\ \A c \in Callers : Returned(c) => conn[c] = 0
  /\ \A c \in Callers : conn[c] # 0 => pc[c] \in {"create", "copy", "merge", "commit", "rollback"}
  /\ (\A c \in Callers : pc[c] \in {"idle", "done"}) => \A k \in Conns : Idle(k)

\* every caller has returned from a call that held a connection, one with
\* an error of the commit and one with success
C12_Witness ==
  /\ \A c \in Callers : Returned(c) /\ txStatus[c] # "none"
  /\ \E c \in Callers : err[c] = "commit"
  /\ \E c \in Callers : err[c] = "nil"

(***************************************************************************)
(* The call's entry checks, its steps and its column order.                *)
(***************************************************************************)
\* the primary key is empty or names a column the first record does not have
BadPrimaryKey(c) ==
  \/ Len(primaryKey[c]) = 0
  \/ \E i \in 1..Len(primaryKey[c]) : ~contains(columns[c], primaryKey[c][i])

\* C13 as claimed: a call with records whose primary key is empty or names a
\* column outside the column set opens no transaction and creates no staging
\* table, and returns an error.
C13_PrimaryKeyValidatedAtEntry ==
  \A c \in Callers :
    (pc[c] # "idle" /\ ~NoRecords(c) /\ BadPrimaryKey(c)) =>
      /\ txStatus[c] = "none"
      /\ conn[c] = 0
      /\ created[c] = 0
      /\ Returned(c) => err[c] # "nil"

\* the errors with which each step ends the call
ErrorsOf(step) ==
  CASE step = "begin" -> {"timeout", "begin"}
    [] step = "create" -> {"timeout", "schema"}
    [] step = "copy" -> {"timeout", "load"}
    [] step = "merge" -> {"timeout", "merge", "42601", "42P10", "23502", "21000"}
    [] step = "commit" -> {"timeout", "commit"}

NextStep(step) ==
  CASE step = "begin" -> "create"
    [] step = "create" -> "copy"
    [] step = "copy" -> "merge"
    [] step = "merge" -> "commit"
    [] step = "commit" -> "rollback"

DatabaseSteps == {"begin", "create", "copy", "merge", "commit"}

\* C14, at every state: a step is due only while no step has failed; the
\* call has made at most one staging table; and every step that is due may
\* fail.
C14_StepsInv ==
  \A c \in Callers :
    /\ pc[c] \in DatabaseSteps => err[c] = "nil"
    /\ created[c] <= 1
    /\ pc[c] = "begin" => ENABLED (Begin(c) /\ err'[c] # "nil")
    /\ pc[c] = "create" => ENABLED (CreateStaging(c) /\ err'[c] # "nil")
    /\ pc[c] = "copy" => ENABLED (Copy(c) /\ err'[c] # "nil")
    /\ pc[c] = "merge" => ENABLED (Merge(c) /\ err'[c] # "nil")
    /\ pc[c] = "commit" => ENABLED (Commit(c) /\ err'[c] # "nil")

\* C14, at every step: a call starts at begin (or returns at once); a step
\* that succeeds is followed by the next step and by no other, a step that
\* fails by the deferred rollback (by the return, for begin) with one of that
\* step's errors; the rollback is followed by the return with the same
\* error; and the error changes only as a step ends or a new call is made.
C14_StepsAct ==
  \A c \in Callers :
    /\ (pc'[c] = pc[c] /\ calls' = calls) => err'[c] = err[c]
    /\ (pc[c] \in {"idle", "done"} /\ (pc'[c] # pc[c] \/ err'[c] # err[c])) =>
         /\ calls' = calls + 1
         /\ err'[c] = "nil"
         /\ pc'[c] = IF Len(input'[c]) = 0 THEN "done" ELSE "begin"
    /\ (pc'[c] # pc[c] /\ pc[c] \in DatabaseSteps) =>
         \/ pc'[c] = NextStep(pc[c]) /\ err'[c] = "nil"
         \/ /\ pc'[c] = IF pc[c] = "begin" THEN "done" ELSE "rollback"
            /\ err'[c] \in ErrorsOf(pc[c])
    /\ (pc'[c] # pc[c] /\ pc[c] = "rollback") => pc'[c] = "done" /\ err'[c] = err[c]

\* C14: the steps begin, create, copy, merge, commit run in that order, each
\* at most once and only after the earlier ones succeeded; the first failure
\* ends the call with that step's error, only the rollback running after it.
C14_StepOrder == []C14_StepsInv /\ [][C14_StepsAct]_vars

\* the bulk load failed: the staging table was made, nothing was loaded or
\* merged, and the call returned the load's error after the rollback
C14_Witness ==
  \E c \in Callers :
    /\ Returned(c) /\ err[c] = "load" /\ txStatus[c] = "aborted"
    /\ created[c] = 1 /\ Len(staging[c]) = 0 /\ pending[c] = EmptyBag

\* C17: the columns of a call are one ordering of the first record's keys;
\* the coerced records have these columns; every row the cursor yields has
\* one value per column, in that order, nil where the record lacks it; each
\* value is staged in the column it was read from (binding and cursor agree);
\* and the rows the merge selects have these columns.
C17_OneColumnOrder ==
  \A c \in Callers :
    (pc[c] # "idle" /\ ~NoRecords(c)) =>
      LET yielded == CopyRows(newMapCopyFromSource(data[c], columns[c]))
      IN  /\ columns[c] \in Perms(DOMAIN input[c][1])
          /\ \A i \in 1..Len(data[c]) : DOMAIN data[c][i] \subseteq Range(columns[c])
          /\ Len(yielded) = Len(input[c])
          /\ \A i \in 1..Len(yielded) :
               /\ Len(yielded[i]) = Len(columns[c])
               /\ \A j \in 1..Len(columns[c]) :
                    yielded[i][j] = IF columns[c][j] \in DOMAIN input[c][i]
                                    THEN data[c][i][columns[c][j]]
                                    ELSE Nil
          /\ pc[c] \in {"merge", "commit"} =>
               /\ Len(staging[c]) = Len(data[c])
               /\ \A i \in 1..Len(staging[c]) : \A col \in Range(columns[c]) :
                    staging[c][i][col] = Lookup(data[c][i], col)
               /\ \A i \in 1..Len(MergedRows(c)) : DOMAIN MergedRows(c)[i] = Range(columns[c])

\* two records, the second lacking a column, loaded in the order val, id
C17_Witness ==
  \E c \in Callers :
    /\ pc[c] = "commit" /\ columns[c] = <<"val", "id">>
    /\ Len(staging[c]) = 2 /\ DOMAIN input[c][2] = {"id"}

(***************************************************************************)
(* The merge's SET clause and the coercion passes.  In the sequence that   *)
(* buildUpdateValuesWithExcluded yields, col stands for the assignment     *)
(* "col = EXCLUDED.col".                                                   *)
(***************************************************************************)
\* where col stands in the sequence cols
IndexOf(cols, col) == CHOOSE i \in 1..Len(cols) : cols[i] = col

\* C16: the SET clause assigns exactly the columns of the column set that are
\* not in the primary key, each once, in the order of the column set, and no
\* primary-key column; it is empty when every column is in the primary key.
C16_SetClause ==
  \A c \in Callers :
    pc[c] # "idle" =>
      LET assigned == buildUpdateValuesWithExcluded(columns[c], primaryKey[c])
          free == Range(columns[c]) \ Range(primaryKey[c])
      IN  /\ Range(assigned) = free
          /\ Len(assigned) = Cardinality(free)
          /\ \A i, j \in 1..Len(assigned) :
               i < j => IndexOf(columns[c], assigned[i]) < IndexOf(columns[c], assigned[j])
          /\ Range(columns[c]) \subseteq Range(primaryKey[c]) => assigned = <<>>

\* three columns with the primary key's one column in the middle
C16_Witness ==
  \E c \in Callers :
    /\ pc[c] # "idle" /\ Len(columns[c]) = 3 /\ primaryKey[c] = <<"id">> /\ columns[c][2] = "id"
    /\ Len(buildUpdateValuesWithExcluded(columns[c], primaryKey[c])) = 2

\* C18 as claimed: every time.Time of the input, whatever its column, is a
\* Timestamptz in the records handed to the bulk load.
C18_TimestampsReachLoader ==
  \A c \in Callers :
    pc[c] # "idle" =>
      \A i \in 1..Len(input[c]) : \A col \in DOMAIN input[c][i] \cap Range(columns[c]) :
        input[c][i][col].k = "time" =>
          /\ col \in DOMAIN data[c][i]
          /\ data[c][i][col].k = "Timestamptz"

\* C19 as claimed: every int of the input is, in the records handed to the
\* bulk load, an int32 of the same value.
C19_IntegerPreserved ==
  \A c \in Callers :
    pc[c] # "idle" =>
      \A i \in 1..Len(input[c]) : \A col \in DOMAIN input[c][i] \cap Range(columns[c]) :
        input[c][i][col].k = "int" =>
          /\ data[c][i][col].k = "int32"
          /\ <<data[c][i][col].hi, data[c][i][col].n>> = <<input[c][i][col].hi, input[c][i][col].n>>

\* the value is a string in the column "time" that time.Parse rejects
Unparsable(col, v) == col = "time" /\ v.k = "string" /\ v.c # "rfc3339"

\* what formatToBinaryData makes of the value v alone in column col
CoercedAlone(col, v) == formatToBinaryData(<<[x \in {col} |-> v]>>, <<col>>)[1][col]

\* coerced is records with the unparsable fields dropped and nothing else:
\* as many records, in their order; a field is missing exactly when its
\* value is an unparsable string of column "time", and every other field is
\* what its value is coerced to on its own, whatever else the records hold
OnlyFieldsDropped(records, coerced, cols) ==
  /\ Len(coerced) = Len(records)
  /\ \A i \in 1..Len(records) : \A col \in Range(cols) :
       IF Unparsable(col, Lookup(records[i], col))
       THEN col \notin DOMAIN coerced[i]
       ELSE /\ col \in DOMAIN coerced[i]
            /\ coerced[i][col] = CoercedAlone(col, Lookup(records[i], col))

\* C20: formatToBinaryData drops the unparsable fields and nothing else,
\* both from the records as the call hands them over (after formatTimestamps,
\* where a string ParseFloat accepts is a float64 already) and from the
\* caller's records as they are; the call goes on to Pool.Begin without
\* error, and for a dropped field the cursor yields nil.
C20_OnlyTheFieldIsDropped ==
  \A c \in Callers :
    (pc[c] # "idle" /\ ~NoRecords(c)) =>
      /\ err[c] = "nil"
      /\ pc[c] = "begin"
      /\ OnlyFieldsDropped(formatTimestamps(input[c], columns[c]), data[c], columns[c])
      /\ OnlyFieldsDropped(input[c], formatToBinaryData(input[c], columns[c]), columns[c])
      /\ \A i \in 1..Len(data[c]) : \A j \in 1..Len(columns[c]) :
           columns[c][j] \notin DOMAIN data[c][i] =>
             CopyRows(newMapCopyFromSource(data[c], columns[c]))[i][j] = Nil

\* the first of two records has an unparsable time beside an int and a bool,
\* the second a time.Time in the same column
C20_Witness ==
  \E c \in Callers :
    /\ pc[c] = "begin" /\ Len(input[c]) = 2 /\ Len(columns[c]) = 3
    /\ Unparsable("time", input[c][1]["time"])
    /\ DOMAIN data[c][1] = {"id", "ts"}
    /\ input[c][2]["time"].k = "time"
    /\ "time" \in DOMAIN data[c][2]

(***************************************************************************)
(* The cursor of the bulk load.                                            *)
(***************************************************************************)
\* how many of the first i calls on c's cursor were calls of Values
ValuesCalls(c, i) == Cardinality({j \in 1..i : cursorLog[c][j].op = "Values"})

\* the values of record number k of the call, in column order
RecordValues(c, k) == [j \in 1..Len(columns[c]) |-> Lookup(data[c][k], columns[c][j])]

\* C15: whatever the order of the calls on a cursor over n records, the k-th
\* call of Values yields the values of record k for k <= n and end-of-data
\* for k > n; Next answers true exactly when fewer than n records have been
\* yielded; Err is always nil; the position is the number of records
\* yielded, so it never goes back, and the cursor keeps its records and
\* columns.
C15_CursorSinglePass ==
  \A c \in Callers :
    dataToInsert[c] # NoCursor =>
      LET n == Len(data[c])
          total == ValuesCalls(c, Len(cursorLog[c]))
      IN  /\ dataToInsert[c].data = data[c]
          /\ dataToInsert[c].columns = columns[c]
          /\ dataToInsert[c].pos = IF total < n THEN total ELSE n
          /\ \A i \in 1..Len(cursorLog[c]) :
               LET k == ValuesCalls(c, i)
                   call == cursorLog[c][i]
               IN  /\ (call.op = "Values" /\ k <= n) => call.ok /\ call.values = RecordValues(c, k)
                   /\ (call.op = "Values" /\ k > n) => ~call.ok /\ call.values = <<>>
                   /\ call.op = "Next" => (call.ok <=> k < n)
                   /\ call.op = "Err" => call.ok

\* on a cursor over two records: Next, then Values three times, the third
\* being end-of-data
C15_Witness ==
  \E c \in Callers :
    /\ Len(data[c]) = 2 /\ data[c][1] # data[c][2]
    /\ Len(cursorLog[c]) = 4
    /\ cursorLog[c][1].op = "Next"
    /\ \A i \in 2..4 : cursorLog[c][i].op = "Values"
    /\ ~cursorLog[c][4].ok

====
